---- MODULE Spec2Model ----
(***************************************************************************)
(* A model of fb-adb's socket layer (net.c) and of the ring buffer         *)
(* interface (ringbuf.h).                                                  *)
(*                                                                         *)
(*   SpecSock  the socket wrappers, one action per statement of a wrapper, *)
(*             over a descriptor table and the caller's cleanup list       *)
(*   SpecWire  the resolver's wire format: xgai_preexec_1's serialisation  *)
(*             and xgetaddrinfo_interruptible's decoder as functions       *)
(*   SpecDecode  the decoder on streams with a byte replaced               *)
(*   SpecGai   the parent/helper interaction of                            *)
(*             xgetaddrinfo_interruptible                                  *)
(*   SpecRing  the ring buffer                                             *)
(*   SpecAddr  the address records and their description                   *)
(***************************************************************************)
EXTENDS Integers, Sequences, FiniteSets, TLC

(***************************************************************************)
(* Bounds of the model.                                                    *)
(***************************************************************************)
\* Size of the process's descriptor table: descriptors are 0 .. MaxFd-1.
MaxFd == 3
\* Cleanup slots the caller's resource list can hold before xalloc fails.
MaxSlots == 3
\* How many times in a row one system call is interrupted by a signal.
MaxEintr == 2
\* The longest lookup result, in nodes.
MaxNodes == 2
\* sizeof (size_t) in bytes, scaled down: the width of a blob's length prefix.
SizeofSz == 2
\* The capacity of the helper's standard-output pipe, in bytes.
PipeCap == 2
\* The largest capacity a ring buffer is created with.
MaxCap == 3
\* The longest file name of which every spelling is tried.
MaxPath == 6
\* The largest size_t, scaled down.
SizeMax == 15

VARIABLES
    \* ---- socket layer ----
    platform,     \* the build: which of the #if branches of net.c are compiled
    open,         \* the open descriptors of the process
    cloexec,      \* the open descriptors that have FD_CLOEXEC set
    reslist,      \* the current resource list: its cleanup slots, oldest first
    pc,           \* the statement the running wrapper is at
    op,           \* the wrapper that is running, or that ran last
    s,            \* xsocket / xaccept_internal: the local s
    fd,           \* xsocketpair: the local fd[2]
    cl,           \* the wrapper's cleanup slots, as indexes into reslist
    sout,         \* the caller's output: *s1, *s2 of xsocketpair, sv[] of xsocketpairnc
    errno,        \* errno as the last failed system call left it
    outcome,      \* how the last wrapper call ended
    created,      \* history: the descriptors the current call created
    closed_log,   \* history: the close() calls made since the current call began
    ncalls,       \* history: how often the current call issued its system call
    eintrs,       \* history: how many of those failed with EINTR
    \* ---- resolver wire format ----
    wire_pc,      \* "start", "encoded", "cut" or "decoded"
    wire_list,    \* the lookup result the helper serialises
    wire_bytes,   \* the byte stream: out.buf, out.bufsz being its length
    wire_cut,     \* the position the stream was cut at, or NoCut
    wire_res,     \* what the decoder made of wire_bytes
    wire_hit,     \* the byte of the stream that was replaced, or NoHit
    \* ---- xgetaddrinfo_interruptible: the parent and its helper ----
    gai_pc,       \* the statement the parent is at
    h_pc,         \* the statement the helper is at
    h_eintrs,     \* how often the helper's getaddrinfo was interrupted
    h_list,       \* the helper's lookup result
    h_todo,       \* the bytes of the serialisation the helper has yet to write
    h_msg,        \* the message of the error the helper caught
    h_stderr,     \* what the recorder captured from the helper's standard error
    h_status,     \* how the helper terminated
    pipe,         \* the bytes in the standard-output pipe
    out,          \* the growable buffer the parent slurps into
    status,       \* what child_wait returned
    gai_res,      \* how xgetaddrinfo_interruptible ended
    \* ---- ring buffer ----
    rb_capacity,  \* the capacity the buffer was created with
    rb_bytes,     \* the backing storage, rb_capacity bytes
    rb_rd,        \* the read cursor: storage index (from 0) of the oldest byte
    rb_size,      \* the bytes held
    rb_out,       \* what the last copy_out / write_out delivered
    rb_err,       \* the operation that failed fatally, if the last one did
    rb_rt,        \* history: the round trip under way
    rb_last,      \* history: the last operation, its count and the size before it
    \* ---- address records ----
    addr_pc,      \* "start", "made" or "done"
    addr_linux,   \* the build: whether __linux__ is defined
    addr_in,      \* what the constructor is called with
    addr_rec,     \* what the constructor returned
    addr_text     \* what describe_addr returned for it

sockVars == <<platform, open, cloexec, reslist, pc, op, s, fd, cl, sout,
              errno, outcome, created, closed_log, ncalls, eintrs>>

wireVars == <<wire_pc, wire_list, wire_bytes, wire_cut, wire_res, wire_hit>>

gaiVars == <<gai_pc, h_pc, h_eintrs, h_list, h_todo, h_msg, h_stderr, h_status,
             pipe, out, status, gai_res>>

ringVars == <<rb_capacity, rb_bytes, rb_rd, rb_size, rb_out, rb_err, rb_rt,
              rb_last>>

addrVars == <<addr_pc, addr_linux, addr_in, addr_rec, addr_text>>

vars == <<sockVars, wireVars, gaiVars, ringVars, addrVars>>

(***************************************************************************)
(* The operating system, as the wrappers see it.                           *)
(***************************************************************************)
Fds == 0 .. (MaxFd - 1)

\* The errno values a failing socket call reports.  EAGAIN and EWOULDBLOCK
\* are kept apart, as net.c:227 tests both.
SyscallErrnos == {"EINTR", "EAGAIN", "EWOULDBLOCK", "EBADF"}

\* The builds net.c has: on Linux SOCK_CLOEXEC is always defined (net.c:16),
\* and accept4 takes SOCK_CLOEXEC, so HAVE_ACCEPT4 implies it.
Platforms ==
    { p \in [linux : BOOLEAN, sock_cloexec : BOOLEAN, accept4 : BOOLEAN] :
        /\ p.linux => p.sock_cloexec
        /\ p.accept4 => p.sock_cloexec }

Free == Fds \ open

\* The kernel hands out the lowest free descriptor.
LowestFree(free) == CHOOSE f \in free : \A g \in free : f <= g

NoFd == -1
\* The caller's output cells before a wrapper wrote them.
Unset == NoFd - 1

(***************************************************************************)
(* The resource list (util.c: cleanup_allocate, cleanup_commit_close_fd,   *)
(* and the unwinding that die() causes).                                   *)
(***************************************************************************)
\* A slot cleanup_allocate returns: allocated, no cleanup function yet.
EmptySlot == [fd |-> NoFd]

\* cleanup_commit_close_fd(cl, fd): slot number i closes fd when it is run.
CleanupCommitCloseFd(rl, i, f) == [rl EXCEPT ![i] = [fd |-> f]]

\* The descriptors the slots of rl close, newest slot first.
RECURSIVE ArmedFds(_)
ArmedFds(rl) ==
    IF rl = <<>> THEN <<>>
    ELSE LET last == rl[Len(rl)]
             rest == ArmedFds(SubSeq(rl, 1, Len(rl) - 1))
         IN IF last.fd = NoFd THEN rest ELSE <<last.fd>> \o rest

SeqRange(q) == { q[i] : i \in 1 .. Len(q) }

Count(q, x) == Cardinality({ i \in 1 .. Len(q) : q[i] = x })

Min(a, b) == IF a <= b THEN a ELSE b

\* Running every cleanup of the resource list: each armed slot closes its
\* descriptor, and the list is left empty.
RunCleanups ==
    /\ open' = open \ SeqRange(ArmedFds(reslist))
    /\ cloexec' = cloexec \ SeqRange(ArmedFds(reslist))
    /\ closed_log' = closed_log \o ArmedFds(reslist)
    /\ reslist' = <<>>

ClearLocals ==
    /\ s' = NoFd
    /\ fd' = <<NoFd, NoFd>>
    /\ cl' = <<>>

\* die(): the error unwinds to the enclosing catch_error, which destroys the
\* resource list of the failed operation; the wrapper's frame is gone.
Die(e, what) ==
    /\ RunCleanups
    /\ ClearLocals
    /\ pc' = "done"
    /\ errno' = e
    /\ outcome' = [kind |-> "die", op |-> op, at |-> pc, errno |-> e,
                   msg |-> what, val |-> NoFd]

\* A wrapper returns v to its caller; its slots stay in the caller's list.
\* (outcome.at is the statement the call ended at.)
Return(v) ==
    /\ ClearLocals
    /\ pc' = "done"
    /\ outcome' = [kind |-> "ret", op |-> op, at |-> pc, errno |-> "none",
                   msg |-> "", val |-> v]

Idle == pc \in {"idle", "done"}

\* A wrapper is entered: the histories of the call start afresh.
Enter(name) ==
    /\ Idle
    /\ op' = name
    /\ created' = {}
    /\ closed_log' = <<>>
    /\ ncalls' = 0
    /\ eintrs' = 0
    /\ outcome' = [kind |-> "running", op |-> name, at |-> "", errno |-> "none",
                   msg |-> "", val |-> NoFd]

NoOutcome ==
    [kind |-> "none", op |-> "none", at |-> "", errno |-> "none", msg |-> "", val |-> NoFd]

SockInit ==
    /\ platform \in Platforms
    /\ open = {}
    /\ cloexec = {}
    /\ reslist = <<>>
    /\ pc = "idle"
    /\ op = "none"
    /\ s = NoFd
    /\ fd = <<NoFd, NoFd>>
    /\ cl = <<>>
    /\ sout = <<Unset, Unset>>
    /\ errno = "none"
    /\ outcome = NoOutcome
    /\ created = {}
    /\ closed_log = <<>>
    /\ ncalls = 0
    /\ eintrs = 0

(***************************************************************************)
(* The resolver's wire format, net.c:352-374 and 392-481.                  *)
(*                                                                         *)
(* A byte is a number below ByteRadix.  A size_t is SizeofSz bytes, least  *)
(* significant first (the helper and the parent are one program image, so  *)
(* write_all and memcpy of the native representation agree).  A struct     *)
(* addrinfo is one byte per field: ai_family (standing for ai_flags,       *)
(* ai_family, ai_socktype and ai_protocol), ai_addrlen, ai_addr,           *)
(* ai_canonname, ai_next; a pointer field is 0 for NULL and any other      *)
(* value for an address.                                                   *)
(***************************************************************************)
ByteRadix == 256

NULL == 0

AddrinfoFields == <<"ai_family", "ai_addrlen", "ai_addr", "ai_canonname", "ai_next">>

\* sizeof (struct addrinfo), net.c:369 and 467
SizeofAddrinfo == Len(AddrinfoFields)

FieldAt(name) == CHOOSE i \in DOMAIN AddrinfoFields : AddrinfoFields[i] = name

\* The lookup results getaddrinfo gives the helper.  A node has its family,
\* its address bytes, and a canonical name (without its NUL) or none.
Families == {2, 10}

Addrs == {<<1>>, <<2>>, <<1, 2>>, <<2, 1, 1>>}

Canons == {[null |-> TRUE, name |-> <<>>],
           [null |-> FALSE, name |-> <<>>],
           [null |-> FALSE, name |-> <<99>>]}

LookupNodes ==
    { n \in [ai_family : Families, addr : Addrs, canon : Canons] :
        \* The family goes with the address length; it takes no part in the
        \* format.
        n.ai_family = (IF Len(n.addr) = 1 THEN 2 ELSE 10) }

RECURSIVE SeqsUpTo(_, _)
SeqsUpTo(S, n) ==
    IF n = 0 THEN {<<>>}
    ELSE LET shorter == SeqsUpTo(S, n - 1)
         IN shorter \cup { Append(q, x) : q \in { r \in shorter : Len(r) = n - 1 }, x \in S }

LookupLists == SeqsUpTo(LookupNodes, MaxNodes)

RECURSIVE Pow(_, _)
Pow(b, n) == IF n = 0 THEN 1 ELSE b * Pow(b, n - 1)

\* The bytes of a size_t in memory.
SzBytes(n) == [i \in 1 .. SizeofSz |-> (n \div Pow(ByteRadix, i - 1)) % ByteRadix]

\* memcpy(&sz, data, sizeof (sz)), net.c:400
RECURSIVE SzValue(_)
SzValue(b) ==
    IF b = <<>> THEN 0 ELSE b[1] + ByteRadix * SzValue(SubSeq(b, 2, Len(b)))

\* write_blob, net.c:352-357: the length, then the bytes.
WriteBlob(data) == SzBytes(Len(data)) \o data

\* The address of a helper object, as a pointer field holds it.
HelperAddress(k) == k

\* The bytes of node k of the helper's list l: the struct addrinfo as it
\* lies in the helper's memory, pointers included.
AddrinfoBytes(l, k) ==
    [i \in 1 .. SizeofAddrinfo |->
        CASE AddrinfoFields[i] = "ai_family" -> l[k].ai_family
          [] AddrinfoFields[i] = "ai_addrlen" -> Len(l[k].addr)
          [] AddrinfoFields[i] = "ai_addr" -> HelperAddress(100 + k)
          [] AddrinfoFields[i] = "ai_canonname" ->
                IF l[k].canon.null THEN NULL ELSE HelperAddress(200 + k)
          [] AddrinfoFields[i] = "ai_next" ->
                IF k = Len(l) THEN NULL ELSE HelperAddress(k + 1)]

\* The canonical name as a C string: strlen(ai_canonname) + 1 bytes.
CString(name) == name \o <<0>>

\* A variant of NodeBytes that never writes the canonical-name blob.
NodeBytes_NoCanonname(l, k) ==
    WriteBlob(AddrinfoBytes(l, k)) \o WriteBlob(l[k].addr)

\* The loop body of xgai_preexec_1, net.c:369-372.
NodeBytes(l, k) ==
    WriteBlob(AddrinfoBytes(l, k))
    \o WriteBlob(l[k].addr)
    \o (IF AddrinfoBytes(l, k)[FieldAt("ai_canonname")] # NULL
        THEN WriteBlob(CString(l[k].canon.name))
        ELSE <<>>)

\* The loop of xgai_preexec_1, net.c:364-373: nodes 1 .. k of l.
RECURSIVE EncodeNodes(_, _)
EncodeNodes(l, k) ==
    IF k = 0 THEN <<>> ELSE EncodeNodes(l, k - 1) \o NodeBytes(l, k)

EncodeList(l) == EncodeNodes(l, Len(l))

(***************************************************************************)
(* The decoder.                                                            *)
(***************************************************************************)
\* What xgetaddrinfo_interruptible's decoding ends with: the list it
\* returns, or a die.  A decoded node has the header's plain fields, the
\* bytes its ai_addr and ai_canonname point to, and its ai_next: either the
\* node linked behind it (raw = FALSE, val its index), or the bytes that
\* came in the header (raw = TRUE).
ListResult(nodes) == [kind |-> "list", err |-> "", msg |-> "", nodes |-> nodes]

DieResult(e, m) == [kind |-> "die", err |-> e, msg |-> m, nodes |-> <<>>]

NoResult == [kind |-> "none", err |-> "", msg |-> "", nodes |-> <<>>]

\* A decode_blob that takes what is left when a blob's length announces
\* more.
DecodeBlob_Lenient(buf, pos) ==
    IF Len(buf) - pos < SizeofSz
    THEN [ok |-> FALSE, sz |-> 0, blob |-> <<>>, pos |-> pos]
    ELSE LET sz == SzValue(SubSeq(buf, pos + 1, pos + SizeofSz))
             data == pos + SizeofSz
         IN [ok |-> TRUE, sz |-> sz,
             blob |-> SubSeq(buf, data + 1, Min(data + sz, Len(buf))),
             pos |-> Min(data + sz, Len(buf))]

\* decode_blob, net.c:392-412, at offset pos of buf: the blob, its size and
\* the offset after it, or ok = FALSE where decode_blob dies.
DecodeBlob(buf, pos) ==
    IF Len(buf) - pos < SizeofSz
    THEN [ok |-> FALSE, sz |-> 0, blob |-> <<>>, pos |-> pos]
    ELSE LET sz == SzValue(SubSeq(buf, pos + 1, pos + SizeofSz))
             data == pos + SizeofSz
         IN IF Len(buf) - data < sz
            THEN [ok |-> FALSE, sz |-> sz, blob |-> <<>>, pos |-> pos]
            ELSE [ok |-> TRUE, sz |-> sz,
                  blob |-> SubSeq(buf, data + 1, data + sz),
                  pos |-> data + sz]

\* A variant of Truncated that ends the list where the data ends.
Truncated_ShortList(nodes) == ListResult(nodes)

\* net.c:398 and 404: die(ECOMM, "truncated data").
Truncated(nodes) == DieResult("ECOMM", "truncated data")

\* net.c:477-478: *next = ai; next = &ai->ai_next.  The node before ai now
\* points to it; ai's own ai_next is still what the header held.
Link(nodes, ai) ==
    IF nodes = <<>> THEN <<ai>>
    ELSE Append([nodes EXCEPT ![Len(nodes)].ai_next = [raw |-> FALSE, val |-> Len(nodes) + 1]],
                ai)

\* The while loop of net.c:462-479 from offset pos on, nodes being linked
\* already.
RECURSIVE DecodeFrom(_, _, _)
DecodeFrom(buf, pos, nodes) ==
    IF ~(pos < Len(buf)) THEN ListResult(nodes)
    ELSE
    LET b1 == DecodeBlob(buf, pos) IN
    IF ~b1.ok THEN Truncated(nodes)
    ELSE IF b1.sz # SizeofAddrinfo THEN DieResult("ECOMM", "gai protocol error")
    ELSE
    LET hdr == b1.blob
        b2 == DecodeBlob(buf, b1.pos)
    IN
    IF ~b2.ok THEN Truncated(nodes)
    ELSE IF b2.sz # hdr[FieldAt("ai_addrlen")] THEN DieResult("ECOMM", "gai protocol error")
    ELSE
    LET named == hdr[FieldAt("ai_canonname")] # NULL
        b3 == IF named THEN DecodeBlob(buf, b2.pos)
              ELSE [ok |-> TRUE, sz |-> 0, blob |-> <<>>, pos |-> b2.pos]
    IN
    IF ~b3.ok THEN Truncated(nodes)
    ELSE
    LET ai == [ai_family |-> hdr[FieldAt("ai_family")],
               ai_addrlen |-> hdr[FieldAt("ai_addrlen")],
               ai_addr |-> b2.blob,
               ai_canonname |-> [null |-> ~named, bytes |-> b3.blob],
               ai_next |-> [raw |-> TRUE, val |-> hdr[FieldAt("ai_next")]]]
    IN DecodeFrom(buf, b3.pos, Link(nodes, ai))

\* net.c:457-481
Decode(buf) == DecodeFrom(buf, 0, <<>>)

NoCut == 0 - 1

\* A byte of a stream replaced: its position (from 1) and its new value.
Hit(pos, val) == [pos |-> pos, val |-> val]

NoHit == Hit(0, 0)

\* The values a byte is replaced with: none, fewer and more than any length
\* of the streams.
HitValues == {0, 3, 200}

\* The wire format stands still while another part of the model runs.
WireOff ==
    /\ wire_pc = "off"
    /\ wire_list = <<>>
    /\ wire_bytes = <<>>
    /\ wire_cut = NoCut
    /\ wire_res = NoResult
    /\ wire_hit = NoHit

WireInit ==
    /\ wire_pc = "start"
    /\ wire_list \in LookupLists
    /\ wire_bytes = <<>>
    /\ wire_cut = NoCut
    /\ wire_res = NoResult
    /\ wire_hit = NoHit

\* xgai_preexec_1 writes the whole list.
WireEncode ==
    /\ wire_pc = "start"
    /\ wire_bytes' = EncodeList(wire_list)
    /\ wire_pc' = "encoded"
    /\ UNCHANGED <<wire_list, wire_cut, wire_res, wire_hit>>

\* The stream is cut short at a position before its end.
WireTruncate ==
    /\ wire_pc = "encoded"
    /\ \E p \in 0 .. (Len(wire_bytes) - 1) :
          /\ wire_bytes' = SubSeq(wire_bytes, 1, p)
          /\ wire_cut' = p
    /\ wire_pc' = "cut"
    /\ UNCHANGED <<wire_list, wire_res, wire_hit>>

\* xgetaddrinfo_interruptible decodes what it collected.
WireDecode ==
    /\ wire_pc \in {"encoded", "cut", "received"}
    /\ wire_res' = Decode(wire_bytes)
    /\ wire_pc' = "decoded"
    /\ UNCHANGED <<wire_list, wire_bytes, wire_cut, wire_hit>>

\* The parent has collected a stream that differs from what the helper
\* wrote for wire_list in one byte.
ReceivedInit ==
    /\ wire_pc = "received"
    /\ wire_list \in LookupLists \ {<<>>}
    /\ wire_hit \in { Hit(pos, val) : pos \in 1 .. Len(EncodeList(wire_list)),
                                     val \in HitValues }
    /\ wire_bytes = [EncodeList(wire_list) EXCEPT ![wire_hit.pos] = wire_hit.val]
    /\ wire_cut = NoCut
    /\ wire_res = NoResult

WireFrame == UNCHANGED <<sockVars, gaiVars, ringVars, addrVars>>

WireNext ==
    \/ WireEncode /\ WireFrame
    \/ WireTruncate /\ WireFrame
    \/ WireDecode /\ WireFrame

\* The socket layer stands still while another part of the model runs.
SockOff ==
    /\ SockInit
    /\ platform = [linux |-> TRUE, sock_cloexec |-> TRUE, accept4 |-> TRUE]


(***************************************************************************)
(* xgetaddrinfo_interruptible, net.c:414-482, and its helper process       *)
(* xgai_preexec, net.c:359-390.  The parent and the helper are two         *)
(* processes joined by the standard-output pipe; the helper's standard     *)
(* error goes to a recorder.                                               *)
(***************************************************************************)
\* The lookup results of this part: lists of up to MaxNodes of two nodes.
GaiNodes ==
    {[ai_family |-> 2, addr |-> <<1>>, canon |-> [null |-> FALSE, name |-> <<99>>]],
     [ai_family |-> 10, addr |-> <<2, 1, 1>>, canon |-> [null |-> TRUE, name |-> <<>>]]}

GaiLists == SeqsUpTo(GaiNodes, MaxNodes)

\* Termination statuses, as the W* macros of <sys/wait.h> read them.
Exited(code) == [kind |-> "exited", code |-> code]

Signaled(sig) == [kind |-> "signaled", code |-> sig]

\* A status that is neither WIFEXITED nor WIFSIGNALED.
OtherStatus == [kind |-> "other", code |-> 0]

Running == [kind |-> "running", code |-> 0]

SIGABRT == 6

SIGKILL == 9

SIGTERM == 15

\* child_status_success_p (child.c): the helper exited with status 0.
ChildStatusSuccessP(st) == st.kind = "exited" /\ st.code = 0

Terminated == h_status # Running

\* fdrecorder_get_clean and massage_output_buf: the captured text without
\* its trailing line ends.
RECURSIVE Clean(_)
Clean(text) ==
    IF text # <<>> /\ text[Len(text)] = "\n"
    THEN Clean(SubSeq(text, 1, Len(text) - 1))
    ELSE text

GaiResult(kind, e, m, nodes, at) ==
    [kind |-> kind, err |-> e, msg |-> m, nodes |-> nodes, at |-> at]

NoGaiResult == GaiResult("none", "", <<>>, <<>>, "")

GaiOff ==
    /\ gai_pc = "off"
    /\ h_pc = "off"
    /\ h_eintrs = 0
    /\ h_list = <<>>
    /\ h_todo = <<>>
    /\ h_msg = <<>>
    /\ h_stderr = <<>>
    /\ h_status = Running
    /\ pipe = <<>>
    /\ out = <<>>
    /\ status = Running
    /\ gai_res = NoGaiResult

GaiInit ==
    /\ gai_pc = "start"
    /\ h_pc = "unborn"
    /\ h_eintrs = 0
    /\ h_list = <<>>
    /\ h_todo = <<>>
    /\ h_msg = <<>>
    /\ h_stderr = <<>>
    /\ h_status = Running
    /\ pipe = <<>>
    /\ out = <<>>
    /\ status = Running
    /\ gai_res = NoGaiResult

(***************************************************************************)
(* The helper                                                              *)
(***************************************************************************)
\* net.c:155, the loop condition of xgetaddrinfo.
XGetaddrinfoRetry(rc, e) == rc = "EAI_SYSTEM" /\ e = "EINTR"

\* xgai_preexec_1 calls xgetaddrinfo (net.c:144-165, 364-365): a list, or a
\* die that xgai_preexec's catch_error catches.
H_Lookup ==
    /\ h_pc = "lookup"
    /\ h_status = Running
    /\ \/ \E l \in GaiLists \ {<<>>} :
             /\ h_list' = l
             /\ h_todo' = EncodeList(l)
             /\ h_pc' = "write"
             /\ UNCHANGED <<h_eintrs, h_msg>>
       \/ \E rc \in {"EAI_SYSTEM", "EAI_NONAME"}, e \in {"EINTR", "EIO"} :
             /\ e = "EINTR" => (rc = "EAI_SYSTEM" /\ h_eintrs < MaxEintr)
             /\ IF XGetaddrinfoRetry(rc, e)
                THEN /\ h_eintrs' = h_eintrs + 1
                     /\ UNCHANGED <<h_pc, h_msg>>
                ELSE /\ h_msg' = IF rc = "EAI_SYSTEM"
                                 THEN <<"getaddrinfo", ": ", e>>
                                 ELSE <<"getaddrinfo failed: ", rc>>
                     /\ h_pc' = "failed"
                     /\ UNCHANGED h_eintrs
             /\ UNCHANGED <<h_list, h_todo>>
    /\ UNCHANGED <<gai_pc, h_stderr, h_status, pipe, out, status, gai_res>>

\* write_all inside write_blob (net.c:352-357, 369-372): one write() moves
\* some of the bytes left into the pipe, as many as it has room for at most,
\* and blocks while the pipe is full; or write() fails and write_all dies.
H_Write ==
    /\ h_pc = "write"
    /\ h_status = Running
    /\ h_todo # <<>>
    /\ \/ /\ Len(pipe) < PipeCap
          /\ \E k \in 1 .. PipeCap :
                /\ k <= Len(h_todo)
                /\ Len(pipe) + k <= PipeCap
                /\ pipe' = pipe \o SubSeq(h_todo, 1, k)
                /\ h_todo' = SubSeq(h_todo, k + 1, Len(h_todo))
          /\ UNCHANGED <<h_pc, h_msg>>
       \/ /\ h_msg' = <<"write", ": ", "EIO">>
          /\ h_pc' = "failed"
          /\ UNCHANGED <<pipe, h_todo>>
    /\ UNCHANGED <<gai_pc, h_eintrs, h_list, h_stderr, h_status, out, status, gai_res>>

\* net.c:389: catch_error returned false, _exit(0).
H_Exit0 ==
    /\ h_pc = "write"
    /\ h_status = Running
    /\ h_todo = <<>>
    /\ h_status' = Exited(0)
    /\ h_pc' = "gone"
    /\ UNCHANGED <<gai_pc, h_eintrs, h_list, h_todo, h_msg, h_stderr, pipe, out,
                   status, gai_res>>

\* A helper that exits with 0 whatever happened.
H_Fail_Exit0 ==
    /\ h_pc = "failed"
    /\ h_status = Running
    /\ h_stderr' = h_stderr \o h_msg
    /\ h_status' = Exited(0)
    /\ h_pc' = "gone"
    /\ UNCHANGED <<gai_pc, h_eintrs, h_list, h_todo, h_msg, pipe, out, status, gai_res>>

\* net.c:384-387: the message goes to standard error and the helper exits
\* with 1; if that write fails, write_all_or_die aborts (net.c:342-343).
H_Fail ==
    /\ h_pc = "failed"
    /\ h_status = Running
    /\ \/ /\ h_stderr' = h_stderr \o h_msg
          /\ h_status' = Exited(1)
       \/ /\ h_status' = Signaled(SIGABRT)
          /\ UNCHANGED h_stderr
    /\ h_pc' = "gone"
    /\ UNCHANGED <<gai_pc, h_eintrs, h_list, h_todo, h_msg, pipe, out, status, gai_res>>

\* A signal kills the helper wherever it is.
H_Killed ==
    /\ h_pc \in {"lookup", "write", "failed"}
    /\ h_status = Running
    /\ \E sig \in {SIGKILL, SIGTERM} : h_status' = Signaled(sig)
    /\ h_pc' = "gone"
    /\ UNCHANGED <<gai_pc, h_eintrs, h_list, h_todo, h_msg, h_stderr, pipe, out,
                   status, gai_res>>

(***************************************************************************)
(* The parent                                                              *)
(***************************************************************************)
\* net.c:426-434, child_start: the helper runs xgai_preexec.
P_ChildStart ==
    /\ gai_pc = "start"
    /\ gai_pc' = "slurp"
    /\ h_pc' = "lookup"
    /\ UNCHANGED <<h_eintrs, h_list, h_todo, h_msg, h_stderr, h_status, pipe, out,
                   status, gai_res>>

\* A slurp that stops at the first read that finds the pipe empty.
P_Slurp_UntilEmpty ==
    /\ gai_pc = "slurp"
    /\ \/ /\ pipe # <<>>
          /\ out' = out \o pipe
          /\ pipe' = <<>>
          /\ UNCHANGED gai_pc
       \/ /\ pipe = <<>>
          /\ gai_pc' = "wait"
          /\ UNCHANGED <<pipe, out>>
    /\ UNCHANGED <<h_pc, h_eintrs, h_list, h_todo, h_msg, h_stderr, h_status,
                   status, gai_res>>

\* net.c:435-436, slurp_fd_buf: read until end of file.  A read takes what
\* the pipe holds; the end of file is an empty pipe whose writer is gone.
P_Slurp ==
    /\ gai_pc = "slurp"
    /\ \/ /\ pipe # <<>>
          /\ out' = out \o pipe
          /\ pipe' = <<>>
          /\ UNCHANGED gai_pc
       \/ /\ pipe = <<>>
          /\ Terminated
          /\ gai_pc' = "wait"
          /\ UNCHANGED <<pipe, out>>
    /\ UNCHANGED <<h_pc, h_eintrs, h_list, h_todo, h_msg, h_stderr, h_status,
                   status, gai_res>>

\* net.c:437, child_wait: blocks until the helper has terminated.
P_Wait ==
    /\ gai_pc = "wait"
    /\ Terminated
    /\ \/ status' = h_status
       \/ status' = OtherStatus
    /\ gai_pc' = "check"
    /\ UNCHANGED <<h_pc, h_eintrs, h_list, h_todo, h_msg, h_stderr, h_status, pipe,
                   out, gai_res>>

\* A variant of FailureMessage that names the signal for every failure.
FailureMessage_AlwaysSignal(st, err) ==
    <<"getaddrinfo failed with signal ", ToString(st.code)>>

\* net.c:440-451: the message the parent dies with when the helper did not
\* succeed; err is the cleaned text of the helper's standard error.
FailureMessage(st, err) ==
    IF st.kind = "exited" THEN err
    ELSE IF st.kind = "signaled"
    THEN <<"getaddrinfo failed with signal ", ToString(st.code)>>
    ELSE <<"unknown status from resolver process">>

\* net.c:438-452
P_Check ==
    /\ gai_pc = "check"
    /\ IF ~ChildStatusSuccessP(status)
       THEN /\ gai_res' = GaiResult("die", "ENOENT",
                                    FailureMessage(status, Clean(h_stderr)),
                                    <<>>, "check")
            /\ gai_pc' = "done"
       ELSE /\ gai_pc' = "decode"
            /\ UNCHANGED gai_res
    /\ UNCHANGED <<h_pc, h_eintrs, h_list, h_todo, h_msg, h_stderr, h_status, pipe,
                   out, status>>

\* net.c:457-481
P_Decode ==
    /\ gai_pc = "decode"
    /\ LET r == Decode(out)
       IN gai_res' = GaiResult(r.kind, r.err, <<r.msg>>, r.nodes, "decode")
    /\ gai_pc' = "done"
    /\ UNCHANGED <<h_pc, h_eintrs, h_list, h_todo, h_msg, h_stderr, h_status, pipe,
                   out, status>>

GaiFrame == UNCHANGED <<sockVars, wireVars, ringVars, addrVars>>

GaiNext ==
    \/ H_Lookup /\ GaiFrame
    \/ H_Write /\ GaiFrame
    \/ H_Exit0 /\ GaiFrame
    \/ H_Fail /\ GaiFrame
    \/ H_Killed /\ GaiFrame
    \/ P_ChildStart /\ GaiFrame
    \/ P_Slurp /\ GaiFrame
    \/ P_Wait /\ GaiFrame
    \/ P_Check /\ GaiFrame
    \/ P_Decode /\ GaiFrame


(***************************************************************************)
(* The ring buffer, ringbuf.h:16-34.  The header declares the interface;   *)
(* the storage, the cursors and the bodies of the operations follow the    *)
(* design document (sections 3 and 4.5), within what the declarations      *)
(* allow: ringbuf_write_out, ringbuf_copy_out and the two iov functions    *)
(* take a const struct ringbuf*, so they leave the buffer as it is.        *)
(*                                                                         *)
(* The buffer holds rb_size bytes, the oldest at storage index rb_rd       *)
(* (counted from 0); the write cursor is rb_rd + rb_size mod capacity.     *)
(***************************************************************************)
RingBytes == {0, 1}

RingCapacity == rb_capacity

RingSize == rb_size

RingRoom == rb_capacity - rb_size

Span(base, len) == [base |-> base, len |-> len]

\* A single span that stops at the end of the storage.
Spans_OneSpan(start, m) ==
    <<Span(start, Min(m, rb_capacity - start)), Span(0, 0)>>

\* The two spans that cover the first m bytes from storage index start.
Spans(start, m) ==
    LET first == Min(m, rb_capacity - start)
    IN <<Span(start, first), Span(0, m - first)>>

ReadableIov(n) == Spans(rb_rd, Min(n, RingSize))

WritableIov(n) == Spans((rb_rd + rb_size) % rb_capacity, Min(n, RingRoom))

IovLen(iov) == iov[1].len + iov[2].len

\* The storage index of the i-th byte (from 1) of a pair of spans.
IovIndex(iov, i) ==
    IF i <= iov[1].len THEN iov[1].base + i ELSE iov[2].base + (i - iov[1].len)

\* The bytes the spans expose, first span first (writev, memcpy out).
Fetch(iov) == [i \in 1 .. IovLen(iov) |-> rb_bytes[IovIndex(iov, i)]]

\* The storage after data was put through the spans (readv, memcpy in).
Deposit(iov, data) ==
    [j \in 1 .. rb_capacity |->
        IF \E i \in 1 .. Len(data) : IovIndex(iov, i) = j
        THEN data[CHOOSE i \in 1 .. Len(data) : IovIndex(iov, i) = j]
        ELSE rb_bytes[j]]

\* The round trip under way: a payload was written into the empty buffer
\* ("written"), then read back in full ("read"), then noted as removed
\* ("removed").  Any other operation ends it.
RoundTrip(stage, data) == [stage |-> stage, data |-> data]

NoRoundTrip == RoundTrip("none", <<>>)

Written(data) == IF rb_size = 0 THEN RoundTrip("written", data) ELSE NoRoundTrip

ReadBack(n, k) ==
    IF rb_rt.stage = "written" /\ n = Len(rb_rt.data) /\ k = n
    THEN RoundTrip("read", rb_rt.data)
    ELSE NoRoundTrip

\* The content: the bytes held, oldest first.
Content == Fetch(ReadableIov(RingSize))

\* The last operation: its name, the count it was about (the bytes
\* transferred or noted), the size before it, and for the operations on
\* spans the bytes concerned: what a deposit put in, what the buffer held
\* before a read or a removal.
Last(o, n, data) == [op |-> o, n |-> n, before |-> rb_size, data |-> data]

NoLast == [op |-> "new", n |-> 0, before |-> 0, data |-> <<>>]

\* There is no ring buffer while another part of the model runs.
RingOff ==
    /\ rb_capacity = 0
    /\ rb_bytes = <<>>
    /\ rb_rd = 0
    /\ rb_size = 0
    /\ rb_out = <<>>
    /\ rb_err = ""
    /\ rb_rt = NoRoundTrip
    /\ rb_last = NoLast

\* ringbuf_new(capacity)
RingInit ==
    /\ rb_capacity \in 1 .. MaxCap
    /\ rb_bytes = [j \in 1 .. rb_capacity |-> 0]
    /\ rb_rd = 0
    /\ rb_size = 0
    /\ rb_out = <<>>
    /\ rb_err = ""
    /\ rb_rt = NoRoundTrip
    /\ rb_last = NoLast

\* A fatal contract violation: nothing was transferred.
RingFatal(what, sz) ==
    /\ rb_err' = what
    /\ rb_last' = Last(what, sz, <<>>)
    /\ rb_out' = <<>>
    /\ rb_rt' = NoRoundTrip
    /\ UNCHANGED <<rb_capacity, rb_bytes, rb_rd, rb_size>>

\* The bookkeeping of ringbuf_note_added(nr).
NoteAdded(nr) ==
    /\ rb_size' = rb_size + nr
    /\ UNCHANGED <<rb_capacity, rb_rd>>

\* The bookkeeping of ringbuf_note_removed(nr).
NoteRemoved(nr) ==
    /\ rb_rd' = (rb_rd + nr) % rb_capacity
    /\ rb_size' = rb_size - nr
    /\ UNCHANGED <<rb_capacity, rb_bytes>>

\* A ringbuf_copy_in that takes whatever it is given.
RingCopyIn_Unchecked ==
    \E buf \in SeqsUpTo(RingBytes, rb_capacity) :
        /\ rb_bytes' = Deposit(WritableIov(Len(buf)), buf)
        /\ rb_last' = Last("copy_in", Len(buf), <<>>)
        /\ NoteAdded(Len(buf))
        /\ rb_rt' = Written(buf)
        /\ rb_out' = <<>>
        /\ rb_err' = ""

\* ringbuf_copy_in(rb, buf, sz): fatal if sz exceeds the room.
RingCopyIn ==
    \E buf \in SeqsUpTo(RingBytes, rb_capacity) :
        IF Len(buf) > RingRoom
        THEN RingFatal("copy_in", Len(buf))
        ELSE /\ rb_bytes' = Deposit(WritableIov(Len(buf)), buf)
             /\ rb_last' = Last("copy_in", Len(buf), <<>>)
             /\ NoteAdded(Len(buf))
             /\ rb_rt' = Written(buf)
             /\ rb_out' = <<>>
             /\ rb_err' = ""

\* ringbuf_read_in(rb, fd, sz): the descriptor delivers at most as many
\* bytes as the writable spans for sz hold.
RingReadIn ==
    \E sz \in 0 .. rb_capacity :
    \E got \in SeqsUpTo(RingBytes, IovLen(WritableIov(sz))) :
        /\ rb_bytes' = Deposit(WritableIov(sz), got)
        /\ rb_last' = Last("read_in", Len(got), <<>>)
        /\ NoteAdded(Len(got))
        /\ rb_rt' = IF Len(got) = sz THEN Written(got) ELSE NoRoundTrip
        /\ rb_out' = <<>>
        /\ rb_err' = ""

\* A ringbuf_copy_out that consumed what it copied, as a function of a
\* non-const buffer would be free to.
RingCopyOut_Consuming ==
    \E sz \in 0 .. rb_capacity :
        IF sz > RingSize
        THEN RingFatal("copy_out", sz)
        ELSE /\ rb_out' = Fetch(ReadableIov(sz))
             /\ rb_rt' = ReadBack(sz, sz)
             /\ rb_err' = ""
             /\ rb_last' = Last("copy_out", sz, Content)
             /\ NoteRemoved(sz)

\* ringbuf_copy_out(rb, buf, sz): fatal if sz exceeds the size; rb is const.
RingCopyOut ==
    \E sz \in 0 .. rb_capacity :
        IF sz > RingSize
        THEN RingFatal("copy_out", sz)
        ELSE /\ rb_out' = Fetch(ReadableIov(sz))
             /\ rb_rt' = ReadBack(sz, sz)
             /\ rb_err' = ""
             /\ rb_last' = Last("copy_out", sz, Content)
             /\ UNCHANGED <<rb_capacity, rb_bytes, rb_rd, rb_size>>

\* ringbuf_write_out(rb, fd, sz): the descriptor takes at most as many bytes
\* as the readable spans for sz expose; rb is const.
RingWriteOut ==
    \E sz \in 0 .. rb_capacity :
    \E k \in 0 .. IovLen(ReadableIov(sz)) :
        /\ rb_out' = SubSeq(Fetch(ReadableIov(sz)), 1, k)
        /\ rb_rt' = ReadBack(sz, k)
        /\ rb_err' = ""
        /\ rb_last' = Last("write_out", k, Content)
        /\ UNCHANGED <<rb_capacity, rb_bytes, rb_rd, rb_size>>

\* The caller puts bytes through the spans of ringbuf_writable_iov itself.
RingDepositThroughIov ==
    \E sz \in 1 .. rb_capacity :
    \E data \in SeqsUpTo(RingBytes, IovLen(WritableIov(sz))) :
        /\ Len(data) > 0
        /\ rb_bytes' = Deposit(WritableIov(sz), data)
        /\ rb_last' = Last("deposit", Len(data), data)
        /\ rb_rt' = NoRoundTrip
        /\ rb_out' = <<>>
        /\ rb_err' = ""
        /\ UNCHANGED <<rb_capacity, rb_rd, rb_size>>

\* ringbuf_note_added(rb, nr), for bytes the caller deposited.
RingNoteAdded ==
    \E nr \in 0 .. RingRoom :
        /\ NoteAdded(nr)
        /\ rb_last' = Last("note_added", nr,
                            IF rb_last.op = "deposit" /\ rb_last.n = nr
                            THEN rb_last.data ELSE <<>>)
        /\ rb_rt' = NoRoundTrip
        /\ rb_out' = <<>>
        /\ rb_err' = ""
        /\ UNCHANGED rb_bytes

\* ringbuf_note_removed(rb, nr), for bytes the caller consumed.
RingNoteRemoved ==
    \E nr \in 0 .. RingSize :
        /\ NoteRemoved(nr)
        /\ rb_last' = Last("note_removed", nr, Content)
        /\ rb_rt' = IF rb_rt.stage = "read" /\ nr = Len(rb_rt.data)
                    THEN RoundTrip("removed", rb_rt.data)
                    ELSE NoRoundTrip
        /\ rb_out' = <<>>
        /\ rb_err' = ""

RingFrame == UNCHANGED <<sockVars, wireVars, gaiVars, addrVars>>

RingNext ==
    \/ RingCopyIn /\ RingFrame
    \/ RingReadIn /\ RingFrame
    \/ RingCopyOut /\ RingFrame
    \/ RingWriteOut /\ RingFrame
    \/ RingDepositThroughIov /\ RingFrame
    \/ RingNoteAdded /\ RingFrame
    \/ RingNoteRemoved /\ RingFrame

(***************************************************************************)
(* Address records: describe_addr, make_addr_unix_filesystem,              *)
(* make_addr_unix_abstract and addrinfo2addr, net.c:25-102 and 167-178.    *)
(*                                                                         *)
(* struct addr (net.h) is a size field followed by a union of the socket   *)
(* address structures: net.c:94 and 169 take the union to begin at         *)
(* offsetof(struct addr, addr_un) = offsetof(struct addr, addr), behind    *)
(* the size field, and net.c:21 takes sun_path to begin at its offset in   *)
(* struct sockaddr_un.  A record is the number of bytes allocated for it,  *)
(* its size field, and raw, the bytes from the start of the union to the   *)
(* end of the allocation.  A size_t is a number up to SizeMax, an int a    *)
(* number up to IntMax.                                                    *)
(***************************************************************************)
\* offsetof(struct addr, addr) and offsetof(struct addr, addr_un)
OffsetofAddr == 4

\* offsetof(struct sockaddr_un, sun_path): sun_family comes first.
OffsetofSunPathInUn == 2

\* offsetof(struct addr, addr_un.sun_path), net.c:48, 73 and 89
OffsetofSunPath == OffsetofAddr + OffsetofSunPathInUn

IntMax == SizeMax \div 2

AF_UNIX == 1

AF_INET == 2

AF_INET6 == 10

AF_OTHER == 3

\* A sa_family_t in memory and back.
FamilyBytes(family) == <<family, 0>>

FamilyOf(raw) == raw[1]

\* Saturating addition of two size_t, SATADD: the sum or SizeMax, and
\* whether it overflowed.
SatAdd(a, b) ==
    [overflow |-> a + b > SizeMax, val |-> Min(a + b, SizeMax)]

\* Unsigned size_t arithmetic.
SizeT(n) == n % (SizeMax + 1)

Record(alloc, size, raw) ==
    [kind |-> "record", err |-> "", msg |-> "", alloc |-> alloc, size |-> size, raw |-> raw]

AddrDie(e, m) ==
    [kind |-> "die", err |-> e, msg |-> m, alloc |-> 0, size |-> 0, raw |-> <<>>]

NoRecord == [kind |-> "none", err |-> "", msg |-> "", alloc |-> 0, size |-> 0, raw |-> <<>>]

\* strlen(s) of a string held without its terminator.
Strlen(str) == Len(str)

\* SUN_LEN, net.c:20-23
SunLen(path) == OffsetofSunPathInUn + Strlen(path)

\* A make_addr_unix_filesystem that takes the allocation for the size.
MakeAddrUnixFilesystem_SizeIsAddrlen(filename) ==
    LET addrlen == SatAdd(OffsetofSunPath, SizeT(Strlen(filename) + 1))
    IN IF addrlen.overflow THEN AddrDie("EINVAL", "socket name too long")
       ELSE Record(addrlen.val, addrlen.val,
                   FamilyBytes(AF_UNIX) \o filename \o <<0>>)

\* make_addr_unix_filesystem, net.c:69-83
MakeAddrUnixFilesystem(filename) ==
    LET filename_length == Strlen(filename)
        addrlen == SatAdd(OffsetofSunPath, SizeT(filename_length + 1))
    IN IF addrlen.overflow THEN AddrDie("EINVAL", "socket name too long")
       ELSE Record(addrlen.val, SunLen(filename),
                   FamilyBytes(AF_UNIX) \o filename \o <<0>>)

\* make_addr_unix_abstract, net.c:85-102
MakeAddrUnixAbstract(bytes, linux) ==
    IF ~linux
    THEN AddrDie("ENOSYS", "this system does not support abstract AF_UNIX")
    ELSE LET addrlen == SatAdd(OffsetofSunPath + 1, Len(bytes))
         IN IF addrlen.overflow THEN AddrDie("EINVAL", "socket name too long")
            ELSE Record(addrlen.val, addrlen.val - OffsetofAddr,
                        FamilyBytes(AF_UNIX) \o <<0>> \o bytes)

\* addrinfo2addr, net.c:167-178
Addrinfo2addr(ai_addr) ==
    LET ai_addrlen == Len(ai_addr)
        allocsz == SatAdd(OffsetofAddr, ai_addrlen)
    IN IF allocsz.overflow THEN AddrDie("EINVAL", "address too long")
       ELSE Record(allocsz.val, ai_addrlen, ai_addr)

\* What describe_addr returns: the format it printed with and the arguments.
Text(fmt, kind, chars) == [kind |-> "text", fmt |-> fmt, what |-> kind, chars |-> chars,
                           err |-> "", msg |-> ""]

DescribeDie(e, m) == [kind |-> "die", fmt |-> "", what |-> "", chars |-> <<>>,
                      err |-> e, msg |-> m]

NoText == [kind |-> "none", fmt |-> "", what |-> "", chars |-> <<>>, err |-> "", msg |-> ""]

\* printf's "%.*s": the bytes of mem from index from on (counted from 1), up
\* to the first NUL, at most precision of them.
RECURSIVE PrintfString(_, _, _)
PrintfString(mem, from, precision) ==
    IF precision = 0 \/ from > Len(mem) \/ mem[from] = 0 THEN <<>>
    ELSE <<mem[from]>> \o PrintfString(mem, from + 1, precision - 1)

\* The AF_UNIX case of describe_addr, net.c:45-62.  path is the index in raw
\* of sun_path[0].
DescribeUnix(a) ==
    LET path == OffsetofSunPathInUn + 1
        path_offset == OffsetofSunPath
    IN IF path_offset > a.size THEN DescribeDie("EINVAL", "illegal AF_UNIX addr")
       ELSE LET pathlen == Min(a.size - path_offset, IntMax)
                abstract == a.raw[path] = 0
            IN Text("[unix%s:[%.*s]]",
                    IF abstract THEN "abstract" ELSE "filesystem",
                    PrintfString(a.raw, IF abstract THEN path + 1 ELSE path, pathlen))

\* The AF_INET and AF_INET6 cases, net.c:31-44: the address and the port are
\* the bytes behind the family.
DescribeInet(a) ==
    Text("[%s:%hu]", "inet", SubSeq(a.raw, OffsetofSunPathInUn + 1, Len(a.raw)))

\* describe_addr, net.c:25-67
DescribeAddr(a) ==
    LET family == FamilyOf(a.raw)
    IN IF family \in {AF_INET, AF_INET6} THEN DescribeInet(a)
       ELSE IF family = AF_UNIX THEN DescribeUnix(a)
       ELSE Text("[unknown address family %d]", "unknown", <<family>>)

\* The file names, the abstract names and the socket addresses the
\* constructors are called with: every short one, and long ones of one
\* letter up to the largest size_t.
PathChars == {97, 98}

Repeat(x, n) == [i \in 1 .. n |-> x]

Filenames ==
    SeqsUpTo(PathChars, MaxPath) \cup { Repeat(97, n) : n \in MaxPath .. (SizeMax - 1) }

AbstractNames ==
    SeqsUpTo(PathChars \cup {0}, MaxPath - 1) \cup { Repeat(97, n) : n \in MaxPath .. SizeMax }

SockAddrs ==
    { FamilyBytes(AF_INET) \o <<0, 80, 127, 0, 0, 1>>,
      FamilyBytes(AF_INET6) \o <<1, 187, 0, 1>>,
      FamilyBytes(AF_OTHER) \o <<7>>,
      FamilyBytes(AF_UNIX) \o <<97, 98, 97, 98, 97, 0>> }
    \cup { FamilyBytes(AF_OTHER) \o Repeat(7, n) : n \in (SizeMax - OffsetofAddr - 3) .. (SizeMax - 2) }

AddrInput(kind, bytes) == [kind |-> kind, bytes |-> bytes]

AddrInputs ==
    { AddrInput("filesystem", f) : f \in Filenames }
    \cup { AddrInput("abstract", b) : b \in AbstractNames }
    \cup { AddrInput("addrinfo", sa) : sa \in SockAddrs }

\* No address record is made while another part of the model runs.
AddrOff ==
    /\ addr_pc = "off"
    /\ addr_linux = TRUE
    /\ addr_in = AddrInput("none", <<>>)
    /\ addr_rec = NoRecord
    /\ addr_text = NoText

AddrInit ==
    /\ addr_pc = "start"
    /\ addr_linux \in BOOLEAN
    /\ addr_in \in AddrInputs
    /\ addr_rec = NoRecord
    /\ addr_text = NoText

Made(rec) ==
    /\ addr_rec' = rec
    /\ addr_pc' = IF rec.kind = "record" THEN "made" ELSE "done"
    /\ UNCHANGED <<addr_linux, addr_in, addr_text>>

AddrMakeUnixFilesystem ==
    /\ addr_pc = "start"
    /\ addr_in.kind = "filesystem"
    /\ Made(MakeAddrUnixFilesystem(addr_in.bytes))

AddrMakeUnixAbstract ==
    /\ addr_pc = "start"
    /\ addr_in.kind = "abstract"
    /\ Made(MakeAddrUnixAbstract(addr_in.bytes, addr_linux))

AddrFromAddrinfo ==
    /\ addr_pc = "start"
    /\ addr_in.kind = "addrinfo"
    /\ Made(Addrinfo2addr(addr_in.bytes))

AddrDescribe ==
    /\ addr_pc = "made"
    /\ addr_text' = DescribeAddr(addr_rec)
    /\ addr_pc' = "done"
    /\ UNCHANGED <<addr_linux, addr_in, addr_rec>>

AddrFrame == UNCHANGED <<sockVars, wireVars, gaiVars, ringVars>>

AddrNext ==
    \/ AddrMakeUnixFilesystem /\ AddrFrame
    \/ AddrMakeUnixAbstract /\ AddrFrame
    \/ AddrFromAddrinfo /\ AddrFrame
    \/ AddrDescribe /\ AddrFrame

(***************************************************************************)
(* Helpers of the wrappers that live outside net.c.                        *)
(***************************************************************************)
\* What a Die leaves alone besides what each action names itself.
DieU(e, what) ==
    /\ Die(e, what)
    /\ UNCHANGED <<platform, op, sout, created, ncalls, eintrs>>

\* cleanup_allocate(), n times: n empty slots at the end of the resource
\* list, or xalloc fails (always so once the list is full).
CleanupAllocate(n, nextpc) ==
    \/ /\ Len(reslist) + n <= MaxSlots
       /\ reslist' = reslist \o [i \in 1 .. n |-> EmptySlot]
       /\ cl' = [i \in 1 .. n |-> Len(reslist) + i]
       /\ pc' = nextpc
       /\ UNCHANGED <<platform, open, cloexec, op, s, fd, sout, errno, outcome,
                      created, closed_log, ncalls, eintrs>>
    \/ DieU("ENOMEM", "xalloc")

\* merge_O_CLOEXEC_into_fd_flags(f, O_CLOEXEC): sets FD_CLOEXEC with fcntl,
\* and dies if fcntl fails.
MergeCloexec(f, nextpc) ==
    \/ /\ cloexec' = cloexec \cup {f}
       /\ pc' = nextpc
       /\ UNCHANGED <<platform, open, reslist, op, s, fd, cl, sout, errno, outcome,
                      created, closed_log, ncalls, eintrs>>
    \/ DieU("EBADF", "fcntl")

\* assert_cloexec(f): reads the descriptor flags and dies unless FD_CLOEXEC
\* is among them (or if the read itself fails).
CloexecAsserted(f) == f \in cloexec

\* The system call of a wrapper fails with e: errno and the histories.
SyscallFails(e) ==
    /\ errno' = e
    /\ ncalls' = ncalls + 1
    /\ eintrs' = eintrs + (IF e = "EINTR" THEN 1 ELSE 0)

\* A failed call whose wrapper dies at once: die_errno(what).
SyscallDies(e, what) ==
    /\ Die(e, what)
    /\ ncalls' = ncalls + 1
    /\ eintrs' = eintrs + (IF e = "EINTR" THEN 1 ELSE 0)
    /\ UNCHANGED <<platform, op, sout, created>>

(***************************************************************************)
(* The caller: it calls one of the wrappers, and its resource list goes    *)
(* out of scope between calls.                                             *)
(***************************************************************************)
Wrappers == {"xsocket", "xaccept", "xaccept_nonblock", "xsocketpair",
             "xsocketpairnc", "xconnect", "xlisten", "xbind", "xsetsockopt",
             "xshutdown"}

EntryPc(name) ==
    CASE name = "xsocket" -> "xsocket_allocate"
      [] name \in {"xaccept", "xaccept_nonblock"} -> "xaccept_allocate"
      [] name = "xsocketpair" -> "xsocketpair_allocate"
      [] name = "xsocketpairnc" -> "xsocketpairnc_socketpair"
      [] name = "xconnect" -> "xconnect_connect"
      [] name = "xlisten" -> "xlisten_listen"
      [] name = "xbind" -> "xbind_bind"
      [] name = "xsetsockopt" -> "xsetsockopt_setsockopt"
      [] name = "xshutdown" -> "xshutdown_shutdown"

Call ==
    \E name \in Wrappers :
        /\ Enter(name)
        /\ pc' = EntryPc(name)
        /\ sout' = <<Unset, Unset>>
        /\ UNCHANGED <<platform, open, cloexec, reslist, s, fd, cl, errno>>

\* The caller's scope ends: its resource list is destroyed and the cleanups
\* still in it run.
ScopeExit ==
    /\ pc = "done"
    /\ reslist # <<>>
    /\ RunCleanups
    /\ pc' = "idle"
    /\ UNCHANGED <<platform, op, s, fd, cl, sout, errno, outcome, created,
                   ncalls, eintrs>>

(***************************************************************************)
(* xsocket, net.c:188-209                                                  *)
(***************************************************************************)
XSocket_Allocate ==
    /\ pc = "xsocket_allocate"
    /\ CleanupAllocate(1, "xsocket_socket")

\* socket(domain, type | SOCK_CLOEXEC, protocol), and die_errno if it failed.
\* The kernel may not honour the flag, which is what assert_cloexec is for.
XSocket_Socket ==
    /\ pc = "xsocket_socket"
    /\ \/ /\ Free # {}
          /\ \E honoured \in BOOLEAN :
                LET f == LowestFree(Free) IN
                /\ open' = open \cup {f}
                /\ cloexec' = IF platform.sock_cloexec /\ honoured
                              THEN cloexec \cup {f} ELSE cloexec
                /\ s' = f
                /\ created' = {f}
          /\ ncalls' = ncalls + 1
          /\ pc' = "xsocket_commit"
          /\ UNCHANGED <<platform, reslist, op, fd, cl, sout, errno, outcome,
                         closed_log, eintrs>>
       \/ \E e \in SyscallErrnos \cup {"EMFILE"} : SyscallDies(e, "socket")

\* A variant of XSocket_Commit that goes on without arming the slot.
XSocket_Commit_Unarmed ==
    /\ pc = "xsocket_commit"
    /\ pc' = IF platform.sock_cloexec THEN "xsocket_assert" ELSE "xsocket_merge"
    /\ UNCHANGED <<platform, open, cloexec, reslist, op, s, fd, cl, sout, errno,
                   outcome, created, closed_log, ncalls, eintrs>>

XSocket_Commit ==
    /\ pc = "xsocket_commit"
    /\ reslist' = CleanupCommitCloseFd(reslist, cl[1], s)
    /\ pc' = IF platform.sock_cloexec THEN "xsocket_assert" ELSE "xsocket_merge"
    /\ UNCHANGED <<platform, open, cloexec, op, s, fd, cl, sout, errno, outcome,
                   created, closed_log, ncalls, eintrs>>

XSocket_Merge ==
    /\ pc = "xsocket_merge"
    /\ MergeCloexec(s, "xsocket_assert")

\* A variant of XSocket_Assert that returns s without the assertion.
XSocket_Assert_Unchecked ==
    /\ pc = "xsocket_assert"
    /\ Return(s)
    /\ UNCHANGED <<platform, open, cloexec, reslist, op, sout, errno,
                   created, closed_log, ncalls, eintrs>>

XSocket_Assert ==
    /\ pc = "xsocket_assert"
    /\ \/ /\ CloexecAsserted(s)
          /\ Return(s)
          /\ UNCHANGED <<platform, open, cloexec, reslist, op, sout, errno,
                         created, closed_log, ncalls, eintrs>>
       \/ /\ ~CloexecAsserted(s)
          /\ DieU("EINVAL", "assert_cloexec")
       \/ DieU("EBADF", "fcntl")

(***************************************************************************)
(* xaccept_internal, xaccept, xaccept_nonblock, net.c:211-261              *)
(***************************************************************************)
\* xaccept passes allow_eagain = false, xaccept_nonblock true.
AllowEagain == op = "xaccept_nonblock"

\* net.c:224, the loop condition: accept is called again.
XAcceptRetry(rc, e) == rc = -1 /\ e = "EINTR"

\* A variant of XAcceptWouldBlock that does not look at allow_eagain.
XAcceptWouldBlock_Always(allow_eagain, rc, e) ==
    rc = -1 /\ e \in {"EAGAIN", "EWOULDBLOCK"}

\* net.c:226-227: the would-block result that is handed back as -1.
XAcceptWouldBlock(allow_eagain, rc, e) ==
    allow_eagain /\ rc = -1 /\ e \in {"EAGAIN", "EWOULDBLOCK"}

XAccept_Allocate ==
    /\ pc = "xaccept_allocate"
    /\ CleanupAllocate(1, "xaccept_accept")

\* One pass of the do-while, and on leaving it the two tests that follow.
XAccept_Accept ==
    /\ pc = "xaccept_accept"
    /\ \/ /\ Free # {}
          /\ \E honoured \in BOOLEAN :
                LET f == LowestFree(Free) IN
                /\ open' = open \cup {f}
                /\ cloexec' = IF platform.accept4 /\ honoured
                              THEN cloexec \cup {f} ELSE cloexec
                /\ s' = f
                /\ created' = {f}
          /\ ncalls' = ncalls + 1
          /\ pc' = "xaccept_commit"
          /\ UNCHANGED <<platform, reslist, op, fd, cl, sout, errno, outcome,
                         closed_log, eintrs>>
       \/ \E e \in SyscallErrnos \cup {"EMFILE"} :
             /\ e = "EINTR" => eintrs < MaxEintr
             /\ IF XAcceptRetry(-1, e)
                THEN /\ SyscallFails(e)
                     /\ UNCHANGED <<platform, open, cloexec, reslist, pc, op, s, fd,
                                    cl, sout, outcome, created, closed_log>>
                ELSE IF XAcceptWouldBlock(AllowEagain, -1, e)
                THEN /\ SyscallFails(e)
                     /\ Return(-1)
                     /\ UNCHANGED <<platform, open, cloexec, reslist, op, sout,
                                    created, closed_log>>
                ELSE SyscallDies(e, "accept")

XAccept_Commit ==
    /\ pc = "xaccept_commit"
    /\ reslist' = CleanupCommitCloseFd(reslist, cl[1], s)
    /\ pc' = IF platform.accept4 THEN "xaccept_assert" ELSE "xaccept_merge"
    /\ UNCHANGED <<platform, open, cloexec, op, s, fd, cl, sout, errno, outcome,
                   created, closed_log, ncalls, eintrs>>

XAccept_Merge ==
    /\ pc = "xaccept_merge"
    /\ MergeCloexec(s, "xaccept_assert")

\* assert_cloexec(s); return s.  In xaccept_nonblock the result is not -1
\* here, and a build that is not Linux goes on to fd_set_blocking_mode.
XAccept_Assert ==
    /\ pc = "xaccept_assert"
    /\ \/ /\ CloexecAsserted(s)
          /\ IF op = "xaccept_nonblock" /\ ~platform.linux
             THEN /\ pc' = "xaccept_nonblock_blocking"
                  /\ UNCHANGED <<s, fd, cl, outcome>>
             ELSE Return(s)
          /\ UNCHANGED <<platform, open, cloexec, reslist, op, sout, errno,
                         created, closed_log, ncalls, eintrs>>
       \/ /\ ~CloexecAsserted(s)
          /\ DieU("EINVAL", "assert_cloexec")
       \/ DieU("EBADF", "fcntl")

\* net.c:257, fd_set_blocking_mode(socket, blocking): fcntl, which may fail.
XAcceptNonblock_Blocking ==
    /\ pc = "xaccept_nonblock_blocking"
    /\ \/ /\ Return(s)
          /\ UNCHANGED <<platform, open, cloexec, reslist, op, sout, errno,
                         created, closed_log, ncalls, eintrs>>
       \/ DieU("EBADF", "fcntl")

(***************************************************************************)
(* xsocketpair, net.c:263-292                                              *)
(***************************************************************************)
XSocketpair_Allocate ==
    /\ pc = "xsocketpair_allocate"
    /\ CleanupAllocate(2, "xsocketpair_socketpair")

\* socketpair() fills both descriptors or none.
SocketpairSucceeds(a, b) ==
    /\ Cardinality(Free) >= 2
    /\ a = LowestFree(Free)
    /\ b = LowestFree(Free \ {a})
    /\ \E honoured \in BOOLEAN :
          cloexec' = IF platform.sock_cloexec /\ honoured
                     THEN cloexec \cup {a, b} ELSE cloexec
    /\ open' = open \cup {a, b}
    /\ created' = {a, b}
    /\ ncalls' = ncalls + 1

XSocketpair_Socketpair ==
    /\ pc = "xsocketpair_socketpair"
    /\ \/ /\ \E a, b \in Fds :
                /\ SocketpairSucceeds(a, b)
                /\ fd' = <<a, b>>
          /\ pc' = "xsocketpair_commit"
          /\ UNCHANGED <<platform, reslist, op, s, cl, sout, errno, outcome,
                         closed_log, eintrs>>
       \/ \E e \in SyscallErrnos \cup {"EMFILE"} : SyscallDies(e, "socketpair")

\* A variant of XSocketpair_Commit that arms only the second slot.
XSocketpair_Commit_SecondOnly ==
    /\ pc = "xsocketpair_commit"
    /\ reslist' = CleanupCommitCloseFd(reslist, cl[2], fd[2])
    /\ pc' = IF platform.sock_cloexec THEN "xsocketpair_assert0"
             ELSE "xsocketpair_merge0"
    /\ UNCHANGED <<platform, open, cloexec, op, s, fd, cl, sout, errno, outcome,
                   created, closed_log, ncalls, eintrs>>

\* A variant of XSocketpair_Commit that arms both slots with fd[0].
XSocketpair_Commit_FirstTwice ==
    /\ pc = "xsocketpair_commit"
    /\ reslist' = CleanupCommitCloseFd(
                      CleanupCommitCloseFd(reslist, cl[1], fd[1]), cl[2], fd[1])
    /\ pc' = IF platform.sock_cloexec THEN "xsocketpair_assert0"
             ELSE "xsocketpair_merge0"
    /\ UNCHANGED <<platform, open, cloexec, op, s, fd, cl, sout, errno, outcome,
                   created, closed_log, ncalls, eintrs>>

XSocketpair_Commit ==
    /\ pc = "xsocketpair_commit"
    /\ reslist' = CleanupCommitCloseFd(
                      CleanupCommitCloseFd(reslist, cl[1], fd[1]), cl[2], fd[2])
    /\ pc' = IF platform.sock_cloexec THEN "xsocketpair_assert0"
             ELSE "xsocketpair_merge0"
    /\ UNCHANGED <<platform, open, cloexec, op, s, fd, cl, sout, errno, outcome,
                   created, closed_log, ncalls, eintrs>>

XSocketpair_Merge0 ==
    /\ pc = "xsocketpair_merge0"
    /\ MergeCloexec(fd[1], "xsocketpair_merge1")

XSocketpair_Merge1 ==
    /\ pc = "xsocketpair_merge1"
    /\ MergeCloexec(fd[2], "xsocketpair_assert0")

\* assert_cloexec(f) in the middle of a wrapper, which goes on at nextpc.
AssertCloexec(f, nextpc) ==
    \/ /\ CloexecAsserted(f)
       /\ pc' = nextpc
       /\ UNCHANGED <<platform, open, cloexec, reslist, op, s, fd, cl, sout, errno,
                      outcome, created, closed_log, ncalls, eintrs>>
    \/ /\ ~CloexecAsserted(f)
       /\ DieU("EINVAL", "assert_cloexec")
    \/ DieU("EBADF", "fcntl")

XSocketpair_Assert0 ==
    /\ pc = "xsocketpair_assert0"
    /\ AssertCloexec(fd[1], "xsocketpair_assert1")

XSocketpair_Assert1 ==
    /\ pc = "xsocketpair_assert1"
    /\ AssertCloexec(fd[2], "xsocketpair_store")

\* *s1 = fd[0]; *s2 = fd[1]; and the wrapper returns.
XSocketpair_Store ==
    /\ pc = "xsocketpair_store"
    /\ sout' = <<fd[1], fd[2]>>
    /\ Return(0)
    /\ UNCHANGED <<platform, open, cloexec, reslist, op, errno, created,
                   closed_log, ncalls, eintrs>>

(***************************************************************************)
(* xsocketpairnc, net.c:294-311: no cleanup slot; socketpair() writes the  *)
(* caller's array sv itself.                                               *)
(***************************************************************************)
XSocketpairnc_Socketpair ==
    /\ pc = "xsocketpairnc_socketpair"
    /\ \/ /\ \E a, b \in Fds :
                /\ SocketpairSucceeds(a, b)
                /\ sout' = <<a, b>>
          /\ pc' = IF platform.sock_cloexec THEN "xsocketpairnc_assert0"
                   ELSE "xsocketpairnc_merge0"
          /\ UNCHANGED <<platform, reslist, op, s, fd, cl, errno, outcome,
                         closed_log, eintrs>>
       \/ \E e \in SyscallErrnos \cup {"EMFILE"} : SyscallDies(e, "socketpair")

XSocketpairnc_Merge0 ==
    /\ pc = "xsocketpairnc_merge0"
    /\ MergeCloexec(sout[1], "xsocketpairnc_merge1")

XSocketpairnc_Merge1 ==
    /\ pc = "xsocketpairnc_merge1"
    /\ MergeCloexec(sout[2], "xsocketpairnc_assert0")

XSocketpairnc_Assert0 ==
    /\ pc = "xsocketpairnc_assert0"
    /\ AssertCloexec(sout[1], "xsocketpairnc_assert1")

XSocketpairnc_Assert1 ==
    /\ pc = "xsocketpairnc_assert1"
    /\ \/ /\ CloexecAsserted(sout[2])
          /\ Return(0)
          /\ UNCHANGED <<platform, open, cloexec, reslist, op, sout, errno,
                         created, closed_log, ncalls, eintrs>>
       \/ /\ ~CloexecAsserted(sout[2])
          /\ DieU("EINVAL", "assert_cloexec")
       \/ DieU("EBADF", "fcntl")

(***************************************************************************)
(* xconnect, xlisten, xbind, xsetsockopt, xshutdown                        *)
(***************************************************************************)
\* A variant of XConnectRetry: no loop, connect is called once.
XConnectRetry_Never(rc, e) == FALSE

\* net.c:118, the loop condition: connect is called again.
XConnectRetry(rc, e) == rc = -1 /\ e = "EINTR"

\* A system call that creates nothing succeeded.
SyscallReturns ==
    /\ ncalls' = ncalls + 1
    /\ Return(0)
    /\ UNCHANGED <<platform, open, cloexec, reslist, op, sout, errno, created,
                   closed_log, eintrs>>

\* net.c:110-122: one pass of the do-while, and the test after it.
XConnect ==
    /\ pc = "xconnect_connect"
    /\ \/ SyscallReturns
       \/ \E e \in SyscallErrnos :
             /\ e = "EINTR" => eintrs < MaxEintr
             /\ IF XConnectRetry(-1, e)
                THEN /\ SyscallFails(e)
                     /\ UNCHANGED <<platform, open, cloexec, reslist, pc, op, s, fd,
                                    cl, sout, outcome, created, closed_log>>
                ELSE SyscallDies(e, "connect")

\* net.c:124-129
XListen ==
    /\ pc = "xlisten_listen"
    /\ \/ SyscallReturns
       \/ \E e \in SyscallErrnos : SyscallDies(e, "listen")

\* net.c:131-136
XBind ==
    /\ pc = "xbind_bind"
    /\ \/ SyscallReturns
       \/ \E e \in SyscallErrnos : SyscallDies(e, "bind")

\* net.c:180-186
XSetsockopt ==
    /\ pc = "xsetsockopt_setsockopt"
    /\ \/ SyscallReturns
       \/ \E e \in SyscallErrnos : SyscallDies(e, "setsockopt")

\* net.c:484-489
XShutdown ==
    /\ pc = "xshutdown_shutdown"
    /\ \/ SyscallReturns
       \/ \E e \in SyscallErrnos : SyscallDies(e, "shutdown")

\* A step of the socket layer leaves the rest of the model alone.
SockFrame == UNCHANGED <<wireVars, gaiVars, ringVars, addrVars>>

SockNext ==
    \/ Call /\ SockFrame
    \/ ScopeExit /\ SockFrame
    \/ XSocket_Allocate /\ SockFrame
    \/ XSocket_Socket /\ SockFrame
    \/ XSocket_Commit /\ SockFrame
    \/ XSocket_Merge /\ SockFrame
    \/ XSocket_Assert /\ SockFrame
    \/ XAccept_Allocate /\ SockFrame
    \/ XAccept_Accept /\ SockFrame
    \/ XAccept_Commit /\ SockFrame
    \/ XAccept_Merge /\ SockFrame
    \/ XAccept_Assert /\ SockFrame
    \/ XAcceptNonblock_Blocking /\ SockFrame
    \/ XSocketpair_Allocate /\ SockFrame
    \/ XSocketpair_Socketpair /\ SockFrame
    \/ XSocketpair_Commit /\ SockFrame
    \/ XSocketpair_Merge0 /\ SockFrame
    \/ XSocketpair_Merge1 /\ SockFrame
    \/ XSocketpair_Assert0 /\ SockFrame
    \/ XSocketpair_Assert1 /\ SockFrame
    \/ XSocketpair_Store /\ SockFrame
    \/ XSocketpairnc_Socketpair /\ SockFrame
    \/ XSocketpairnc_Merge0 /\ SockFrame
    \/ XSocketpairnc_Merge1 /\ SockFrame
    \/ XSocketpairnc_Assert0 /\ SockFrame
    \/ XSocketpairnc_Assert1 /\ SockFrame
    \/ XConnect /\ SockFrame
    \/ XListen /\ SockFrame
    \/ XBind /\ SockFrame
    \/ XSetsockopt /\ SockFrame
    \/ XShutdown /\ SockFrame

SockSpecInit == SockInit /\ WireOff /\ GaiOff /\ RingOff /\ AddrOff

SpecSock == SockSpecInit /\ [][SockNext]_vars

WireSpecInit == WireInit /\ SockOff /\ GaiOff /\ RingOff /\ AddrOff

SpecWire == WireSpecInit /\ [][WireNext]_vars

GaiSpecInit == GaiInit /\ SockOff /\ WireOff /\ RingOff /\ AddrOff

SpecGai == GaiSpecInit /\ [][GaiNext]_vars

RingSpecInit == RingInit /\ SockOff /\ WireOff /\ GaiOff /\ AddrOff

SpecRing == RingSpecInit /\ [][RingNext]_vars

\* The helper and the parent are two processes, and the system runs each of
\* them when it can take a step: the helper when its system call can
\* complete, the parent when its read or its wait can return.  The parent's
\* steps that depend on being scheduled are those up to the check of the exit
\* status; the decoding that follows is a computation of the parent alone.
HelperStep == (H_Lookup \/ H_Write \/ H_Exit0 \/ H_Fail) /\ GaiFrame

ParentStep == (P_ChildStart \/ P_Slurp \/ P_Wait \/ P_Check) /\ GaiFrame

SpecGaiLive == SpecGai /\ WF_vars(HelperStep) /\ WF_vars(ParentStep)

DecodeSpecInit == ReceivedInit /\ SockOff /\ GaiOff /\ RingOff /\ AddrOff

DecodeNext == WireDecode /\ WireFrame

SpecDecode == DecodeSpecInit /\ [][DecodeNext]_vars

AddrSpecInit == AddrInit /\ SockOff /\ WireOff /\ GaiOff /\ RingOff

SpecAddr == AddrSpecInit /\ [][AddrNext]_vars

(***************************************************************************)
(* Properties of the socket wrappers (checked under SpecSock).             *)
(***************************************************************************)
Armed == SeqRange(ArmedFds(reslist))

Guarded == {"xsocket", "xaccept", "xaccept_nonblock", "xsocketpair"}

Ended == pc = "done"

Died == Ended /\ outcome.kind = "die"

Returned == Ended /\ outcome.kind = "ret"

\* The statements of the guarded wrappers that come after the commit.
AfterCommit ==
    {"xsocket_merge", "xsocket_assert", "xaccept_merge", "xaccept_assert",
     "xaccept_nonblock_blocking", "xsocketpair_merge0", "xsocketpair_merge1",
     "xsocketpair_assert0", "xsocketpair_assert1", "xsocketpair_store"}

\* C1: in xsocket, xaccept_internal and xsocketpair the cleanup slots exist
\* (empty) when the descriptor-creating system call is made, every created
\* descriptor is armed in a slot at each later fallible statement, and when
\* the wrapper has died no descriptor it created is open.
C1_GuardedWrappersNeverLeak ==
    /\ pc \in {"xsocket_socket", "xaccept_accept"} =>
          /\ Len(cl) = 1
          /\ cl[1] \in DOMAIN reslist
          /\ reslist[cl[1]] = EmptySlot
    /\ pc = "xsocketpair_socketpair" =>
          /\ Len(cl) = 2
          /\ cl[1] # cl[2]
          /\ \A i \in 1 .. 2 : cl[i] \in DOMAIN reslist /\ reslist[cl[i]] = EmptySlot
    /\ pc \in AfterCommit => created # {} /\ created \subseteq Armed
    /\ (Died /\ op \in Guarded) => created \cap open = {}

\* C1, its case: xsocket died in assert_cloexec after socket() had made a
\* descriptor, and the descriptor is closed.
C1_Witness ==
    /\ Died
    /\ op = "xsocket"
    /\ outcome.at = "xsocket_assert"
    /\ created # {}
    /\ created \cap open = {}
    /\ created \subseteq SeqRange(closed_log)

\* The statements of xsocketpair that set up the second descriptor.
SecondSetup == {"xsocketpair_merge1", "xsocketpair_assert1"}

\* C2: when xsocketpair dies setting up fd[1], both descriptors have been
\* closed and *s1, *s2 are unwritten; *s1, *s2 are written only by a call
\* that returned, with both descriptors open and close-on-exec.
C2_SocketpairSecondSetupFails ==
    /\ (Died /\ op = "xsocketpair" /\ outcome.at \in SecondSetup) =>
          /\ Cardinality(created) = 2
          /\ created \cap open = {}
          /\ \A f \in created : Count(closed_log, f) = 1
          /\ sout = <<Unset, Unset>>
    /\ (op = "xsocketpair" /\ sout # <<Unset, Unset>>) =>
          /\ outcome.kind = "ret"
          /\ created = {sout[1], sout[2]}
          /\ Ended => {sout[1], sout[2]} \subseteq (open \cap cloexec)

\* C2, its case: the assertion on fd[1] failed after the one on fd[0] passed.
C2_Witness ==
    /\ Died
    /\ op = "xsocketpair"
    /\ outcome.at = "xsocketpair_assert1"
    /\ Cardinality(created) = 2
    /\ created \cap open = {}

\* C3: when xsocketpairnc dies after socketpair() succeeded, both created
\* descriptors are closed.
C3_SocketpairncNeverLeaks ==
    (Died /\ op = "xsocketpairnc") => created \cap open = {}

\* C4: a descriptor a wrapper returns is open and has close-on-exec set when
\* the wrapper returns, in every build.
C4_ReturnedDescriptorsAreCloexec ==
    /\ (Returned /\ op \in {"xsocket", "xaccept", "xaccept_nonblock"}
          /\ outcome.val # -1) =>
          outcome.val \in (open \cap cloexec)
    /\ (Returned /\ op \in {"xsocketpair", "xsocketpairnc"}) =>
          {sout[1], sout[2]} \subseteq (open \cap cloexec)

\* C4, its case: a build without SOCK_CLOEXEC, where the flag is set after
\* creation, returned a descriptor from xaccept_nonblock.
C4_Witness ==
    /\ Returned
    /\ ~platform.sock_cloexec
    /\ op = "xaccept_nonblock"
    /\ outcome.val \in cloexec

Retrying == {"xconnect", "xaccept", "xaccept_nonblock"}

WouldBlock == {"EAGAIN", "EWOULDBLOCK"}

\* C9: a call that ends at the accept statement returns (and then -1, with
\* nothing created, nothing closed and its slot left empty) exactly when it
\* is xaccept_nonblock and errno is EAGAIN or EWOULDBLOCK; otherwise it dies
\* with accept's errno, which is not EINTR; -1 is returned nowhere else, and
\* never by xaccept.
C9_NonblockingAccept ==
    /\ (Ended /\ op \in {"xaccept", "xaccept_nonblock"}
          /\ outcome.at = "xaccept_accept") =>
          /\ outcome.kind = "ret" <=> (op = "xaccept_nonblock" /\ errno \in WouldBlock)
          /\ outcome.kind = "ret" =>
                /\ outcome.val = -1
                /\ created = {}
                /\ closed_log = <<>>
                /\ reslist # <<>>
                /\ reslist[Len(reslist)] = EmptySlot
          /\ outcome.kind = "die" =>
                /\ outcome.errno = errno
                /\ errno # "EINTR"
    /\ (Returned /\ op \in {"xaccept", "xaccept_nonblock"} /\ outcome.val = -1) =>
          /\ op = "xaccept_nonblock"
          /\ outcome.at = "xaccept_accept"

\* C9, its case: xaccept_nonblock returned -1 on EWOULDBLOCK.
C9_Witness ==
    /\ Returned
    /\ op = "xaccept_nonblock"
    /\ outcome.val = -1
    /\ errno = "EWOULDBLOCK"

(***************************************************************************)
(* Properties of the wire format (checked under SpecWire).                 *)
(***************************************************************************)
\* Node i of the decoded list is node i of the helper's list: the same
\* family and address bytes, the canonical name (as a C string) present or
\* absent as in the helper.
SameNode(d, n) ==
    /\ d.ai_family = n.ai_family
    /\ d.ai_addrlen = Len(n.addr)
    /\ d.ai_addr = n.addr
    /\ d.ai_canonname.null = n.canon.null
    /\ ~n.canon.null => d.ai_canonname.bytes = CString(n.canon.name)

\* Following ai_next from the first node visits nodes 1, 2, ... in turn and
\* ends at a null pointer behind the last one.
ChainedInOrder(nodes) ==
    \A i \in DOMAIN nodes :
        nodes[i].ai_next = IF i < Len(nodes) THEN [raw |-> FALSE, val |-> i + 1]
                           ELSE [raw |-> TRUE, val |-> NULL]

\* C5: decoding the stream xgai_preexec_1 writes for a list gives a list of
\* as many nodes, chained in the same order, each with the address bytes and
\* the canonical name (or none) of the node it was written from.
C5_WireRoundTrip ==
    (wire_pc = "decoded" /\ wire_cut = NoCut) =>
        /\ wire_res.kind = "list"
        /\ Len(wire_res.nodes) = Len(wire_list)
        /\ \A i \in DOMAIN wire_list : SameNode(wire_res.nodes[i], wire_list[i])
        /\ ChainedInOrder(wire_res.nodes)

\* C5, its case: a list of two nodes, the first with a canonical name and
\* the second without, has been written and decoded.
C5_Witness ==
    /\ wire_pc = "decoded"
    /\ wire_cut = NoCut
    /\ Len(wire_list) = 2
    /\ ~wire_list[1].canon.null
    /\ wire_list[1].canon.name # <<>>
    /\ wire_list[2].canon.null
    /\ wire_list[1].addr # wire_list[2].addr
    /\ wire_res.kind = "list"
    /\ Len(wire_res.nodes) = 2

\* The last blob of the stream of a list that is not empty, with its length
\* prefix: the canonical name of the last node if it has one, else its
\* address.
FinalBlob(l) ==
    LET last == l[Len(l)]
    IN IF last.canon.null THEN WriteBlob(last.addr)
       ELSE WriteBlob(CString(last.canon.name))

\* The offset the final blob starts at.
FinalBlobStart(l) == Len(EncodeList(l)) - Len(FinalBlob(l))

\* The offsets at which a node's bytes end and the next node's begin, the
\* start of the stream among them.
NodeBoundaries(l) == { Len(EncodeNodes(l, k)) : k \in 0 .. Len(l) }

\* The offsets at which a blob ends and another blob of the same node begins.
BlobBoundaries(l) ==
    { Len(EncodeNodes(l, k - 1)) + Len(WriteBlob(AddrinfoBytes(l, k))) : k \in 1 .. Len(l) }
    \cup { Len(EncodeNodes(l, k)) - Len(WriteBlob(CString(l[k].canon.name))) :
             k \in { j \in 1 .. Len(l) : ~l[j].canon.null } }

\* C6 as claimed: decoding a stream cut at any position before the start of
\* its final blob dies.
C6_EveryTruncationDies ==
    (wire_pc = "decoded" /\ wire_cut # NoCut /\ wire_cut < FinalBlobStart(wire_list)) =>
        wire_res.kind = "die"

\* C6 as amended: decoding a stream cut at a position that is not a node
\* boundary dies with ECOMM; decoding a stream cut at a node boundary
\* (position 0 included) dies of nothing and returns the nodes before the
\* cut, as many as were whole.
C6_TruncationInsideANodeDies ==
    (wire_pc = "decoded" /\ wire_cut # NoCut) =>
        IF wire_cut \in NodeBoundaries(wire_list)
        THEN /\ wire_res.kind = "list"
             /\ Len(EncodeNodes(wire_list, Len(wire_res.nodes))) = wire_cut
             /\ \A i \in DOMAIN wire_res.nodes :
                   SameNode(wire_res.nodes[i], wire_list[i])
        ELSE /\ wire_res.kind = "die"
             /\ wire_res.err = "ECOMM"

\* C6, its case: a stream cut exactly between two blobs of its first node,
\* before the final blob, has been decoded, and the decoder died.
C6_Witness ==
    /\ wire_pc = "decoded"
    /\ wire_cut # NoCut
    /\ Len(wire_list) = 2
    /\ wire_cut \in BlobBoundaries(wire_list)
    /\ wire_cut < FinalBlobStart(wire_list)
    /\ wire_res.kind = "die"
    /\ wire_res.msg = "truncated data"

(***************************************************************************)
(* Properties of xgetaddrinfo_interruptible (checked under SpecGai).       *)
(***************************************************************************)
\* C7: when the helper did not succeed the parent dies at the status check,
\* returning no list and decoding nothing: with the cleaned standard-error
\* text as its message if the helper exited (the very message the helper
\* wrote, when it exited with 1), with a message naming the signal number if
\* a signal killed it, and with a fatal error otherwise.
C7_HelperFailureReporting ==
    /\ gai_pc = "decode" => ChildStatusSuccessP(status)
    /\ (gai_pc = "done" /\ ~ChildStatusSuccessP(status)) =>
          /\ gai_res.kind = "die"
          /\ gai_res.at = "check"
          /\ gai_res.nodes = <<>>
          /\ status.kind = "exited" =>
                /\ gai_res.msg = Clean(h_stderr)
                /\ status = h_status => gai_res.msg = h_msg
          /\ status.kind = "signaled" =>
                gai_res.msg = <<"getaddrinfo failed with signal ", ToString(status.code)>>
          /\ status.kind = "other" =>
                gai_res.msg = <<"unknown status from resolver process">>

\* C7, its case: the lookup failed, the helper wrote its message to standard
\* error and exited with 1, and the parent died with that message.
C7_Witness ==
    /\ gai_pc = "done"
    /\ status = Exited(1)
    /\ h_msg = <<"getaddrinfo failed: ", "EAI_NONAME">>
    /\ gai_res.kind = "die"
    /\ gai_res.msg = h_msg

(***************************************************************************)
(* Properties of the ring buffer (checked under SpecRing).                 *)
(***************************************************************************)
\* The payload of the round trip wraps past the end of the storage.
RoundTripWraps == rb_rd + Len(rb_rt.data) > rb_capacity

C11_Occupancy ==
    /\ [](/\ RingSize + RingRoom = RingCapacity
          /\ 0 <= RingSize
          /\ RingSize <= RingCapacity)
    /\ [][rb_capacity' = rb_capacity]_vars

\* C11, its case: writes and removals have been interleaved until the
\* buffer was full again with its content wrapped, and a request for more
\* than the room has been refused.
C11_Witness ==
    /\ RingSize = RingCapacity
    /\ RingRoom = 0
    /\ rb_rd # 0
    /\ rb_last.op = "copy_in"
    /\ rb_err = "copy_in"

\* A pair of spans lies in the storage and begins at the cursor.
WellFormedIov(iov, cursor) ==
    /\ iov[1].base = cursor
    /\ iov[2].base = 0
    /\ \A i \in 1 .. 2 : iov[i].len >= 0 /\ iov[i].base + iov[i].len <= RingCapacity

\* C12: for every count n the spans of ringbuf_readable_iov sum to
\* min(n, size()) and those of ringbuf_writable_iov to min(n, room()); the
\* second span is not empty exactly when the range wraps past the end of
\* the storage; after note_added(k) the size is k more and the bytes
\* deposited through the writable spans are the newest of the content;
\* after note_removed(k) the size is k less and the content is what it was
\* without its k oldest bytes.
C12_SpansAndNotes ==
    /\ \A n \in 0 .. (RingCapacity + 1) :
          LET r == ReadableIov(n)
              w == WritableIov(n)
              wr == (rb_rd + rb_size) % rb_capacity
          IN /\ IovLen(r) = Min(n, RingSize)
             /\ IovLen(w) = Min(n, RingRoom)
             /\ WellFormedIov(r, rb_rd)
             /\ WellFormedIov(w, wr)
             /\ r[2].len > 0 <=> rb_rd + Min(n, RingSize) > RingCapacity
             /\ w[2].len > 0 <=> wr + Min(n, RingRoom) > RingCapacity
    /\ rb_last.op = "note_added" =>
          /\ RingSize = rb_last.before + rb_last.n
          /\ rb_last.data # <<>> =>
                SubSeq(Content, RingSize - rb_last.n + 1, RingSize) = rb_last.data
    /\ rb_last.op = "note_removed" =>
          /\ RingSize = rb_last.before - rb_last.n
          /\ Content = SubSeq(rb_last.data, rb_last.n + 1, Len(rb_last.data))

\* C12, its case: bytes deposited through two writable spans have been
\* noted as added, and the content wraps past the end of the storage.
C12_Witness ==
    /\ rb_last.op = "note_added"
    /\ Len(rb_last.data) >= 2
    /\ rb_last.data[1] # rb_last.data[2]
    /\ ReadableIov(RingSize)[2].len > 0
    /\ rb_rd + rb_last.before < RingCapacity

(***************************************************************************)
(* Properties of the address records (checked under SpecAddr).             *)
(***************************************************************************)
\* A record was made and described.
Described == addr_pc = "done" /\ addr_rec.kind = "record"

\* C13: for every file name p that is not empty,
\* describe_addr(make_addr_unix_filesystem(p)) does not fail and renders a
\* filesystem address with exactly the characters of p; for every abstract
\* name b, describe_addr(make_addr_unix_abstract(b)) renders an abstract
\* address with exactly the bytes of b.
C13_UnixDescribeRoundTrip ==
    /\ (Described /\ addr_in.kind = "filesystem" /\ addr_in.bytes # <<>>) =>
          /\ addr_text.kind = "text"
          /\ addr_text.what = "filesystem"
          /\ addr_text.chars = addr_in.bytes
    /\ (Described /\ addr_in.kind = "abstract") =>
          /\ addr_text.kind = "text"
          /\ addr_text.what = "abstract"
          /\ addr_text.chars = addr_in.bytes

\* The bytes a constructor's record takes, computed without a limit.
Needed ==
    CASE addr_in.kind = "filesystem" -> OffsetofSunPath + Len(addr_in.bytes) + 1
      [] addr_in.kind = "abstract" -> OffsetofSunPath + 1 + Len(addr_in.bytes)
      [] addr_in.kind = "addrinfo" -> OffsetofAddr + Len(addr_in.bytes)

\* C16: a record a constructor returns has the bytes allocated that its
\* input takes, and its header and the size bytes of address its size field
\* announces lie within them; when that many bytes are more than a size_t
\* can express the constructor dies and returns no record.
C16_RecordSizeFitsAllocation ==
    addr_pc \in {"made", "done"} =>
        /\ addr_rec.kind = "record" =>
              /\ addr_rec.alloc = Needed
              /\ Len(addr_rec.raw) = addr_rec.alloc - OffsetofAddr
              /\ addr_rec.size >= 0
              /\ OffsetofAddr + addr_rec.size <= addr_rec.alloc
        /\ Needed > SizeMax =>
              /\ addr_rec.kind = "die"
              /\ addr_linux => addr_rec.err = "EINVAL"

\* C16, its case: a file name of every length has a record whose size is
\* within the allocation; here the longest name that still fits.
C16_Witness ==
    /\ addr_pc = "made"
    /\ addr_in.kind = "filesystem"
    /\ addr_rec.kind = "record"
    /\ addr_rec.alloc = SizeMax
    /\ addr_rec.size = SunLen(addr_in.bytes)

NodeStart(l, k) == Len(EncodeNodes(l, k - 1))

\* The positions of the length of node k's first blob, of the ai_addrlen
\* field in it, and of the length of its second blob.
FirstLength(l, k) == (NodeStart(l, k) + 1) .. (NodeStart(l, k) + SizeofSz)

AddrlenField(l, k) == NodeStart(l, k) + SizeofSz + FieldAt("ai_addrlen")

SecondLength(l, k) ==
    (NodeStart(l, k) + SizeofSz + SizeofAddrinfo + 1)
        .. (NodeStart(l, k) + SizeofSz + SizeofAddrinfo + SizeofSz)

LengthFields(l) ==
    UNION { FirstLength(l, k) \cup {AddrlenField(l, k)} \cup SecondLength(l, k) :
              k \in 1 .. Len(l) }

\* The offset behind the second blob of node k, where the length of its
\* canonical name lies if it has one.
NameStart(l, k) == NodeStart(l, k) + 2 * SizeofSz + SizeofAddrinfo + Len(l[k].addr)

\* The replaced byte is in the length of the canonical name of a node, and
\* the length now exceeds the bytes left behind it.
NameLengthExceeds ==
    \E k \in 1 .. Len(wire_list) :
        /\ ~wire_list[k].canon.null
        /\ wire_hit.pos \in (NameStart(wire_list, k) + 1) .. (NameStart(wire_list, k) + SizeofSz)
        /\ SzValue(SubSeq(wire_bytes, NameStart(wire_list, k) + 1,
                          NameStart(wire_list, k) + SizeofSz))
              > Len(wire_bytes) - (NameStart(wire_list, k) + SizeofSz)

\* A byte of the stream was replaced by another value.
Changed == wire_hit # NoHit /\ wire_bytes # EncodeList(wire_list)

\* The bytes of the stream that a decoded node was made from.
RECURSIVE Consumed(_)
Consumed(nodes) ==
    IF nodes = <<>> THEN 0
    ELSE LET n == nodes[1]
         IN SizeofSz + SizeofAddrinfo + SizeofSz + Len(n.ai_addr)
            + (IF n.ai_canonname.null THEN 0 ELSE SizeofSz + Len(n.ai_canonname.bytes))
            + Consumed(Tail(nodes))

\* C15: decoding ends with a list or with the fatal error ECOMM; it is the
\* error when the length of a node's first blob is not the size of a
\* struct addrinfo, when the length of its second blob differs from the
\* ai_addrlen of the first, and when a blob's length exceeds the bytes left;
\* a list that is returned has in every node as many address bytes as its
\* ai_addrlen says, and its nodes were made from exactly the bytes of the
\* stream, none behind its end.
C15_DecodeLengthChecks ==
    wire_pc = "decoded" =>
        /\ wire_res.kind \in {"list", "die"}
        /\ wire_res.kind = "die" => wire_res.err = "ECOMM"
        /\ (Changed /\ wire_hit.pos \in LengthFields(wire_list)) => wire_res.kind = "die"
        /\ (Changed /\ NameLengthExceeds) => wire_res.kind = "die"
        /\ wire_res.kind = "list" =>
              /\ \A i \in DOMAIN wire_res.nodes :
                    Len(wire_res.nodes[i].ai_addr) = wire_res.nodes[i].ai_addrlen
              /\ Consumed(wire_res.nodes) = Len(wire_bytes)

\* C15, its case: the length of the second blob of the second node was
\* replaced, and the decoder died of the mismatch with ai_addrlen.
C15_Witness ==
    /\ wire_pc = "decoded"
    /\ Changed
    /\ Len(wire_list) = 2
    /\ wire_hit.pos \in SecondLength(wire_list, 2)
    /\ wire_res.kind = "die"
    /\ wire_res.msg = "gai protocol error"

\* C18: a list the decoder returns is properly terminated: the ai_next of
\* each node but the last leads to the node decoded after it, the ai_next of
\* the last node is null, and no ai_next is a value left from the bytes of
\* the header.
C18_ListProperlyTerminated ==
    (wire_pc = "decoded" /\ wire_res.kind = "list") =>
        \A i \in DOMAIN wire_res.nodes :
            /\ ~wire_res.nodes[i].ai_next.raw
            /\ wire_res.nodes[i].ai_next.val =
                  (IF i < Len(wire_res.nodes) THEN i + 1 ELSE NULL)

(***************************************************************************)
(* More properties of xgetaddrinfo_interruptible (checked under SpecGai).  *)
(***************************************************************************)
\* The helper caught an error: its lookup or one of its writes to standard
\* output failed.
HelperFailed == h_msg # <<>>

\* The helper ended by its own doing, not by a signal sent to it.
EndedItself == h_pc = "gone" /\ h_status \notin {Signaled(SIGKILL), Signaled(SIGTERM)}

\* When xgetaddrinfo_interruptible returns a list, the helper exited with 0
\* after writing the whole serialisation, the parent collected all of it,
\* and the list has every node of the lookup result.
ListIsComplete ==
    gai_res.kind = "list" =>
        /\ h_status = Exited(0)
        /\ status = Exited(0)
        /\ ~HelperFailed
        /\ h_todo = <<>>
        /\ out = EncodeList(h_list)
        /\ Len(gai_res.nodes) = Len(h_list)
        /\ \A i \in DOMAIN h_list : SameNode(gai_res.nodes[i], h_list[i])

\* When the helper failed the parent returns no list.
FailureGivesNoList ==
    (HelperFailed /\ gai_pc = "done") =>
        /\ gai_res.kind = "die"
        /\ gai_res.nodes = <<>>

\* C17 as claimed: a returned list is complete; a helper whose lookup or
\* write failed exits with status 1, and the parent returns no list.
C17_FailedHelperExitsWith1 ==
    /\ ListIsComplete
    /\ FailureGivesNoList
    /\ (HelperFailed /\ EndedItself) => h_status = Exited(1)

\* C17 as amended: a returned list is complete; a helper whose lookup or
\* write failed never exits with 0: it exits with 1 once its message is on
\* standard error, and aborts (SIGABRT) if it cannot write the message; the
\* parent returns no list.
C17_FailedHelperNeverExits0 ==
    /\ ListIsComplete
    /\ FailureGivesNoList
    /\ (HelperFailed /\ EndedItself) =>
          /\ h_status \in {Exited(1), Signaled(SIGABRT)}
          /\ h_status = Exited(1) <=> h_stderr = h_msg
    /\ h_status = Exited(0) => (~HelperFailed /\ h_todo = <<>>)

\* C17, its case: a write failed after part of the serialisation had
\* reached the parent; the helper exited with 1 and the parent died.
C17_Witness ==
    /\ gai_pc = "done"
    /\ h_msg = <<"write", ": ", "EIO">>
    /\ out # <<>>
    /\ h_todo # <<>>
    /\ h_status = Exited(1)
    /\ gai_res.kind = "die"

\* The helper is blocked in a write to its standard output: the pipe is
\* full.
BlockedWriting ==
    /\ h_pc = "write"
    /\ h_status = Running
    /\ h_todo # <<>>
    /\ Len(pipe) >= PipeCap

\* C19: the parent is never in child_wait while the helper still runs (so
\* never while the helper is blocked writing to a full pipe): it has read
\* the pipe to its end before; and, whatever the size of the output, the
\* helper eventually ends and the parent eventually has its exit status.
C19_ParentHelperProgress ==
    /\ [](gai_pc = "wait" => (Terminated /\ pipe = <<>> /\ ~BlockedWriting))
    /\ <>Terminated
    /\ <>(status # Running)

\* C19, its case: a helper that was blocked with the pipe full got all of
\* an output larger than the pipe across, and the parent has its status.
C19_Witness ==
    /\ gai_pc = "done"
    /\ Len(out) > PipeCap
    /\ out = EncodeList(h_list)
    /\ status = Exited(0)
    /\ gai_res.kind = "list"

====
